---------------------------- MODULE Spec2Model ----------------------------
(***************************************************************************)
(* MovieLens ELT pipeline: loader, transformer, quality gate, warehouse    *)
(* builder, analytics reporter and the Airflow DAG that sequences them.    *)
(*                                                                         *)
(* Relations are bags (multisets) of rows, as SQL tables are.  A rating is *)
(* held in tenths of a star (5 is 0.5, 50 is 5.0).  Text is a sequence of  *)
(* tokens: a word, a space, a parenthesis, a bar or a digit.               *)
(***************************************************************************)
EXTENDS Integers, Sequences, FiniteSets, Bags, TLC

(***************************************************************************)
(* SQL NULL.  Every comparison below tests IsNull first, as SQL's          *)
(* three-valued logic makes a comparison with NULL not true.               *)
(***************************************************************************)
NULL == -1
NullText == <<"\\N">>

IsNull(x) == x = NULL
IsNullText(t) == t = NullText

\* ------------------------------------------------------------------ bounds
MaxRatingRows == 2
MaxMovieRows == 2
MaxFileRows == 3
MaxChunkSize == 2

\* ----------------------------------------------------------- bag helpers
RECURSIVE SumOver(_, _)
SumOver(f, S) ==
    IF S = {} THEN 0
    ELSE LET x == CHOOSE y \in S : TRUE
         IN  f[x] + SumOver(f, S \ {x})

\* Number of rows of table b (a bag) that satisfy the row set S.
CountIn(b, S) == BagCardinality([x \in BagToSet(b) \cap S |-> b[x]])

RowCount(b) == BagCardinality(b)

RECURSIVE BagsUpTo(_, _)
BagsUpTo(Rows, n) ==
    IF n = 0 THEN {EmptyBag}
    ELSE LET B == BagsUpTo(Rows, n - 1)
         IN  B \cup {b (+) SetToBag({r}) : b \in B, r \in Rows}


\* ---------------------------------------------------------- text helpers
Digits == {"0", "1", "2", "3", "4", "5", "6", "7", "8", "9"}

DigitVal(c) ==
    CASE c = "0" -> 0 [] c = "1" -> 1 [] c = "2" -> 2 [] c = "3" -> 3
      [] c = "4" -> 4 [] c = "5" -> 5 [] c = "6" -> 6 [] c = "7" -> 7
      [] c = "8" -> 8 [] c = "9" -> 9

\* PostgreSQL's TRIM(x) strips the space character only, from both ends.
RECURSIVE LTrim(_)
LTrim(t) == IF t # <<>> /\ Head(t) = " " THEN LTrim(Tail(t)) ELSE t

RECURSIVE RTrim(_)
RTrim(t) ==
    IF t # <<>> /\ t[Len(t)] = " " THEN RTrim(SubSeq(t, 1, Len(t) - 1)) ELSE t

Trim(t) == IF IsNullText(t) THEN NullText ELSE RTrim(LTrim(t))

\* The regex class \s: space and tab.
IsWhitespace(c) == c \in {" ", "\t"}

\* title ~ '\(\d{4}\)$': the text ends with "(", four digits, ")".
\* A NULL title makes the match NULL, which a CASE WHEN treats as not true.
MatchesYear(t) ==
    /\ ~IsNullText(t)
    /\ Len(t) >= 6
    /\ t[Len(t) - 5] = "("
    /\ \A i \in 1..4 : t[Len(t) - 5 + i] \in Digits
    /\ t[Len(t)] = ")"

\* CAST(SUBSTRING(title FROM '\(([0-9]{4})\)$') AS INTEGER)
ExtractYear(t) ==
    LET n == Len(t)
    IN  1000 * DigitVal(t[n - 4]) + 100 * DigitVal(t[n - 3])
          + 10 * DigitVal(t[n - 2]) + DigitVal(t[n - 1])

RECURSIVE DropTrailingWhitespace(_)
DropTrailingWhitespace(t) ==
    IF t # <<>> /\ IsWhitespace(t[Len(t)])
    THEN DropTrailingWhitespace(SubSeq(t, 1, Len(t) - 1))
    ELSE t

\* REGEXP_REPLACE(title, '\s*\([0-9]{4}\)$', ''): the year suffix goes, with
\* the whole run of whitespace before it (the leftmost match).
RemoveYearSuffix(t) ==
    IF MatchesYear(t) THEN DropTrailingWhitespace(SubSeq(t, 1, Len(t) - 6)) ELSE t

Unknown == <<"Unknown">>

\* string_to_array(t, '|'): the parts between the bars; no part for the empty
\* text.
RECURSIVE SplitFrom(_, _)
SplitFrom(t, part) ==
    IF t = <<>> THEN <<part>>
    ELSE IF Head(t) = "|" THEN <<part>> \o SplitFrom(Tail(t), <<>>)
    ELSE SplitFrom(Tail(t), Append(part, Head(t)))

string_to_array(t) == IF t = <<>> THEN <<>> ELSE SplitFrom(t, <<>>)

\* The order of the genre names under ORDER BY genre_name.
Collation ==
    << <<>>, <<"Action">>, <<"Comedy">>, <<"Unknown">> >>

SortKey(name) == CHOOSE i \in 1..Len(Collation) : Collation[i] = name

\* ------------------------------------------------------------ input rows
MovieIds == {NULL, 1, 2}
UserIds == {NULL, 1}
Ratings == {NULL, 4, 5, 50, 51}
Timestamps == {NULL, 100, 200}

Titles ==
    { NullText,
      <<"A", " ", "(", "2", "0", "0", "0", ")">>,
      <<"B">>,
      <<" ", "B", " ">>,
      <<"A", " ", "(", "2", "0", "0", "0", ")", " ">> }

GenreTexts == {NullText, <<>>, <<" ">>, <<"Action">>, <<"Action", "|", "Comedy">>}

MovieRows == [movieId : MovieIds, title : Titles, genres : GenreTexts]

RatingRows ==
    [userId : UserIds, movieId : MovieIds, rating : Ratings, timestamp : Timestamps]

\* The end-to-end scenario of the specification (section 8).
ScenarioMovies ==
    SetToBag({ [movieId |-> 1, title |-> <<"A", " ", "(", "2", "0", "0", "0", ")">>,
                genres |-> <<"Action">>],
               [movieId |-> 2, title |-> <<"B">>, genres |-> <<"Comedy">>] })

ScenarioRatings ==
    SetToBag({ [userId |-> 1, movieId |-> 1, rating |-> 40, timestamp |-> 100],
               [userId |-> 1, movieId |-> 1, rating |-> 50, timestamp |-> 200],
               [userId |-> 2, movieId |-> 2, rating |-> 30, timestamp |-> 50] })

\* -------------------------------------------------------------- the state
VARIABLES
    catalog,            \* the names of the relations that exist in the database
    staging_movies,     \* each relation's rows, a bag (empty when it does not exist)
    staging_ratings,
    cleaned_movies,
    cleaned_ratings,
    dim_movies,
    dim_genres,
    dim_users,
    bridge_movie_genres,
    fact_ratings,
    indexes,            \* the names of the indexes that exist in the database
    transform_pc,       \* position of transform_data.main
    checks_passed,      \* DataQualityChecker's fields
    checks_failed,
    results,
    quality_return,     \* what data_quality.main returned
    quality_log,        \* the lines run_check has written to the log in this run
    movies_csv,         \* the data rows of movies.csv and of ratings.csv, parsed
    ratings_csv,
    chunksize,          \* rows per chunk of load_csv_to_staging
    load_pc,            \* position of load_staging.main
    table_name,         \* arguments and locals of the running load_csv_to_staging
    load_i,
    rows_loaded,
    load_before,        \* history: the target relation when the call began
    movies_rows,        \* what the two calls returned to main
    ratings_rows,
    warehouse_pc,       \* position of create_warehouse.main
    rebuilt,            \* history: what this run of create_warehouse.main has built
    analytics_pc,       \* position of run_analytics.main
    output_files,       \* the files of the output directory, by name: each one's rows
    files_written,      \* history: the files this run of run_analytics.main has written
    task_state,         \* the scheduler's state of each task of the DAG run
    try_number,         \* attempts of each task so far
    later_state,        \* the same two, for the DAG run of the next schedule time
    later_try

vars_wh == <<dim_movies, dim_genres, dim_users, bridge_movie_genres, fact_ratings, indexes>>

vars_db == <<catalog, staging_movies, staging_ratings, cleaned_movies, cleaned_ratings,
             vars_wh>>

vars_gate == <<checks_passed, checks_failed, results, quality_return, quality_log>>

vars_load == <<movies_csv, ratings_csv, chunksize, load_pc, table_name, load_i,
               rows_loaded, load_before, movies_rows, ratings_rows>>

vars_later == <<later_state, later_try>>

vars_analytics == <<analytics_pc, output_files, files_written>>

vars_dag == <<warehouse_pc, rebuilt, vars_analytics, task_state, try_number, vars_later>>

vars == <<vars_db, transform_pc, vars_gate, vars_load, vars_dag>>

\* ------------------------------------------------------ drop and recreate
\* The statement left out: the relation keeps its rows.
KeepTable(old) == old

\* DROP TABLE IF EXISTS, then CREATE TABLE: the relation has no row.
DropTable(old) == EmptyBag

\* ------------------------------------------------------------ transformer
\* The SELECT list of cleaned_movies, for one staging row.
CleanMovieRow(r) ==
    [ movieId      |-> r.movieId,
      title        |-> Trim(r.title),
      release_year |-> IF MatchesYear(r.title) THEN ExtractYear(r.title) ELSE NULL,
      clean_title  |-> IF MatchesYear(r.title)
                       THEN Trim(RemoveYearSuffix(r.title))
                       ELSE Trim(r.title),
      genres       |-> IF IsNullText(Trim(r.genres)) THEN Unknown ELSE Trim(r.genres) ]

\* CREATE TABLE cleaned_movies AS SELECT DISTINCT ... WHERE "movieId" IS NOT NULL:
\* DISTINCT is over the whole output row.
CleanMoviesResult(staging) ==
    SetToBag({CleanMovieRow(r) : r \in {x \in BagToSet(staging) : ~IsNull(x.movieId)}})

RatingMin == 5
RatingMax == 50

\* The WHERE clause without its last condition, rating <= 5.0.
RatingFilterNoUpperBound(r) ==
    /\ ~IsNull(r.userId)
    /\ ~IsNull(r.movieId)
    /\ ~IsNull(r.rating)
    /\ r.rating >= RatingMin

\* The WHERE clause of cleaned_ratings.
RatingFilter(r) ==
    /\ ~IsNull(r.userId)
    /\ ~IsNull(r.movieId)
    /\ ~IsNull(r.rating)
    /\ r.rating >= RatingMin
    /\ r.rating <= RatingMax

\* TO_TIMESTAMP(timestamp): Unix seconds to a calendar value, <<day, second of day>>.
ToTimestamp(ts) == IF IsNull(ts) THEN <<>> ELSE <<ts \div 86400, ts % 86400>>

\* The SELECT list of cleaned_ratings, for one staging row.
CleanRatingRow(r) ==
    [ userId           |-> r.userId,
      movieId          |-> r.movieId,
      rating           |-> r.rating,
      rating_timestamp |-> r.timestamp,
      rating_datetime  |-> ToTimestamp(r.timestamp) ]

\* ORDER BY ..., timestamp DESC: a sorts strictly before b.  PostgreSQL puts
\* NULLs first in a descending sort.
SortsBefore(a, b) ==
    \/ IsNull(a.timestamp) /\ ~IsNull(b.timestamp)
    \/ ~IsNull(a.timestamp) /\ ~IsNull(b.timestamp) /\ a.timestamp > b.timestamp

PairOf(r) == <<r.userId, r.movieId>>

\* The rows that can come first in their (userId, movieId) group.  Rows that
\* tie on the sort key come in an order PostgreSQL does not fix.
FirstRows(rows, k) ==
    LET group == {r \in rows : PairOf(r) = k}
    IN  {r \in group : \A o \in group : ~SortsBefore(o, r)}

\* The statement without DISTINCT ON: every row is returned.
SelectAll(rows) == {rows}

\* SELECT DISTINCT ON ("userId", "movieId") ... ORDER BY "userId", "movieId",
\* timestamp DESC: every set of rows the statement can return.
DistinctOn(rows) ==
    LET keys == {PairOf(r) : r \in rows}
    IN  { {pick[k] : k \in keys} :
            pick \in {f \in [keys -> rows] : \A k \in keys : f[k] \in FirstRows(rows, k)} }

\* The statement with its WHERE clause applied to what DISTINCT ON returns: a
\* pair whose first row fails the filter is dropped.
CleanRatingsFilterLast(staging) ==
    { SetToBag({CleanRatingRow(r) : r \in {x \in S : RatingFilter(x)}}) :
        S \in DistinctOn(BagToSet(staging)) }

\* Every content CREATE TABLE cleaned_ratings AS ... can produce.
CleanRatingsResults(staging) ==
    { SetToBag({CleanRatingRow(r) : r \in S}) :
        S \in DistinctOn({r \in BagToSet(staging) : RatingFilter(r)}) }

\* ----------------------------------------------------------------- loader
RECURSIVE SeqToBag(_)
SeqToBag(rows) ==
    IF rows = <<>> THEN EmptyBag ELSE SetToBag({Head(rows)}) (+) SeqToBag(Tail(rows))

Min(a, b) == IF a <= b THEN a ELSE b

\* total_rows: the file's line count less the header.
TotalRows(file) == Len(file)

\* The chunks pd.read_csv(csv_path, chunksize=...) yields: a file with no data
\* row yields one empty chunk.
NumChunks(file, size) ==
    IF Len(file) = 0 THEN 1 ELSE (Len(file) + size - 1) \div size

Chunk(file, i, size) == SubSeq(file, i * size + 1, Min((i + 1) * size, Len(file)))

\* Every chunk appended, the first one too.
IfExistsAppend(i) == "append"

\* First chunk replaces table, subsequent chunks append.
IfExists(i) == IF i = 0 THEN "replace" ELSE "append"

\* chunk.to_sql(table_name, connection, if_exists=..., index=False), committed
\* when the connection closes: the relation's rows afterwards.
to_sql(old, chunk, if_exists) ==
    IF if_exists = "replace" THEN SeqToBag(chunk) ELSE old (+) SeqToBag(chunk)

FileOf(name) == IF name = "staging_movies" THEN movies_csv ELSE ratings_csv

RelationOf(name) == IF name = "staging_movies" THEN staging_movies ELSE staging_ratings

\* load_staging.main after a load_csv_to_staging call has returned n.
LoadReturned(n) ==
    IF table_name = "staging_movies"
    THEN /\ movies_rows' = n
         /\ table_name' = "staging_ratings"
         /\ load_before' = staging_ratings
         /\ load_pc' = "loading"
         /\ UNCHANGED ratings_rows
    ELSE /\ ratings_rows' = n
         /\ load_pc' = "verify"
         /\ UNCHANGED <<movies_rows, table_name, load_before>>

\* One pass of the loop of load_csv_to_staging: chunk load_i is read and
\* written, rows_loaded and the progress are computed.  The progress divides
\* by total_rows, so it raises when the file has no data row.  After the last
\* chunk the call returns rows_loaded.
LoadChunk ==
    /\ load_pc = "loading"
    /\ LET file    == FileOf(table_name)
           chunk   == Chunk(file, load_i, chunksize)
           written == to_sql(RelationOf(table_name), chunk, IfExists(load_i))
           loaded  == rows_loaded + Len(chunk)
       IN  /\ IF table_name = "staging_movies"
              THEN staging_movies' = written /\ UNCHANGED staging_ratings
              ELSE staging_ratings' = written /\ UNCHANGED staging_movies
           /\ catalog' = catalog \cup {table_name}
           /\ IF TotalRows(file) = 0
              THEN /\ load_pc' = "raised"
                   /\ rows_loaded' = loaded
                   /\ UNCHANGED <<load_i, table_name, load_before, movies_rows, ratings_rows>>
              ELSE IF load_i + 1 < NumChunks(file, chunksize)
              THEN /\ load_i' = load_i + 1
                   /\ rows_loaded' = loaded
                   /\ UNCHANGED <<load_pc, table_name, load_before, movies_rows, ratings_rows>>
              ELSE /\ LoadReturned(loaded)
                   /\ load_i' = 0
                   /\ rows_loaded' = 0
    /\ UNCHANGED <<cleaned_movies, cleaned_ratings, vars_wh, transform_pc, vars_gate,
                   movies_csv, ratings_csv, chunksize, vars_dag>>

\* The file is missing, or reading or writing chunk load_i fails: the chunk's
\* transaction is rolled back, the error is logged and raised again, and
\* main ends with it.
LoadRaise ==
    /\ load_pc = "loading"
    /\ load_pc' = "raised"
    /\ UNCHANGED <<vars_db, transform_pc, vars_gate, movies_csv, ratings_csv, chunksize,
                   table_name, load_i, rows_loaded, load_before, movies_rows, ratings_rows,
                   vars_dag>>

\* verify_staging_tables, then main returns: reads only.
VerifyStagingTables ==
    /\ load_pc = "verify"
    /\ load_pc' = "done"
    /\ UNCHANGED <<vars_db, transform_pc, vars_gate, movies_csv, ratings_csv, chunksize,
                   table_name, load_i, rows_loaded, load_before, movies_rows, ratings_rows,
                   vars_dag>>

\* ----------------------------------------------------------- quality gate
\* DataQualityChecker.__init__; log is what its run_check calls have logged.
NewChecker == [checks_passed |-> 0, checks_failed |-> 0, results |-> <<>>, log |-> <<>>]

\* The scalar each check's query returns, from the cleaned relations m and r.
\* AVG is the pair <<sum, count>>, and NULL over no rows.
QueryValue(name, m, r) ==
    LET M == BagToSet(m)
        R == BagToSet(r)
    IN
    CASE name = "Movies - Table Not Empty" -> RowCount(m)
      [] name = "Movies - No NULL movieId" -> CountIn(m, {x \in M : IsNull(x.movieId)})
      [] name = "Movies - No Duplicate movieId" ->
            RowCount(m) - Cardinality({x.movieId : x \in M} \ {NULL})
      [] name = "Movies - No NULL Titles" ->
            CountIn(m, {x \in M : IsNullText(x.title) \/ x.title = <<>>})
      [] name = "Movies - No NULL Genres" ->
            CountIn(m, {x \in M : IsNullText(x.genres) \/ x.genres = <<>>})
      [] name = "Movies - Valid Release Years" ->
            CountIn(m, {x \in M : /\ ~IsNull(x.release_year)
                                  /\ (x.release_year < 1800 \/ x.release_year > 2030)})
      [] name = "Movies - Expected Row Count" -> RowCount(m)
      [] name = "Ratings - Table Not Empty" -> RowCount(r)
      [] name = "Ratings - No NULL userId" -> CountIn(r, {x \in R : IsNull(x.userId)})
      [] name = "Ratings - No NULL movieId" -> CountIn(r, {x \in R : IsNull(x.movieId)})
      [] name = "Ratings - No NULL Ratings" -> CountIn(r, {x \in R : IsNull(x.rating)})
      [] name = "Ratings - Valid Rating Range" ->
            CountIn(r, {x \in R : ~IsNull(x.rating) /\ (x.rating < 5 \/ x.rating > 50)})
      [] name = "Ratings - Valid Rating Increments" ->
            CountIn(r, {x \in R : ~IsNull(x.rating) /\ x.rating % 5 # 0})
      [] name = "Ratings - Expected Row Count" -> RowCount(r)
      [] name = "Ratings - Referential Integrity" ->
            CountIn(r, {x \in R : \/ IsNull(x.movieId)
                                  \/ \A y \in M : IsNull(y.movieId) \/ y.movieId # x.movieId})
      [] name = "Cross - Movies With Ratings" ->
            Cardinality({y.movieId : y \in {z \in M : /\ ~IsNull(z.movieId)
                                                      /\ \E x \in R : x.movieId = z.movieId}})
      [] name = "Cross - Reasonable Average Rating" ->
            LET rated == {x \in R : ~IsNull(x.rating)}
                total == SumOver([x \in rated |-> r[x] * x.rating], rated)
            IN  IF rated = {} THEN <<>> ELSE <<total, CountIn(r, rated)>>

\* The relations a check's query reads: the query raises when one is missing.
QueryTables(name) ==
    CASE name \in {"Movies - Table Not Empty", "Movies - No NULL movieId",
                   "Movies - No Duplicate movieId", "Movies - No NULL Titles",
                   "Movies - No NULL Genres", "Movies - Valid Release Years",
                   "Movies - Expected Row Count"} -> {"cleaned_movies"}
      [] name \in {"Ratings - Referential Integrity", "Cross - Movies With Ratings"} ->
            {"cleaned_movies", "cleaned_ratings"}
      [] OTHER -> {"cleaned_ratings"}

\* Each check's lambda over the scalar.
ExpectedCondition(name, x) ==
    CASE name \in {"Movies - Table Not Empty", "Ratings - Table Not Empty",
                   "Cross - Movies With Ratings"} -> x > 0
      [] name = "Movies - Expected Row Count" -> x > 80000 /\ x < 100000
      [] name = "Ratings - Expected Row Count" -> x > 30000000 /\ x < 35000000
      [] name = "Cross - Reasonable Average Rating" ->
            x[1] > 20 * x[2] /\ x[1] < 45 * x[2]
      [] OTHER -> x = 0

\* Each check's description.
Description(name) ==
    CASE name \in {"Movies - Table Not Empty", "Ratings - Table Not Empty"} ->
            "Table should have at least 1 row"
      [] name \in {"Movies - No NULL movieId", "Ratings - No NULL movieId"} ->
            "movieId should never be NULL"
      [] name = "Movies - No Duplicate movieId" -> "Each movieId should be unique"
      [] name = "Movies - No NULL Titles" -> "All movies should have titles"
      [] name = "Movies - No NULL Genres" -> "All movies should have genres"
      [] name = "Movies - Valid Release Years" ->
            "Release years should be between 1800 and 2030"
      [] name = "Movies - Expected Row Count" -> "Should have approximately 87,000 movies"
      [] name = "Ratings - No NULL userId" -> "userId should never be NULL"
      [] name = "Ratings - No NULL Ratings" -> "rating should never be NULL"
      [] name = "Ratings - Valid Rating Range" -> "Ratings should be between 0.5 and 5.0"
      [] name = "Ratings - Valid Rating Increments" -> "Ratings should be in 0.5 increments"
      [] name = "Ratings - Expected Row Count" ->
            "Should have approximately 32 million ratings"
      [] name = "Ratings - Referential Integrity" ->
            "All rated movies should exist in movies table"
      [] name = "Cross - Movies With Ratings" -> "At least some movies should have ratings"
      [] name = "Cross - Reasonable Average Rating" ->
            "Average rating should be between 2.0 and 4.5"

\* The lambda raises TypeError when it compares None: AVG over no rows.
ConditionRaises(name, x) == name = "Cross - Reasonable Average Rating" /\ x = <<>>

\* The exception the try block of run_check ends with, "" when it ends with
\* none: the connection or the query fails for the checks in failing (the
\* database is unreachable, the statement is cancelled), the query names a
\* relation that does not exist, or the lambda compares None.
RaisedIn(check_name, present, m, r, failing) ==
    IF check_name \in failing THEN "OperationalError"
    ELSE IF ~(QueryTables(check_name) \subseteq present) THEN "ProgrammingError"
    ELSE IF ConditionRaises(check_name, QueryValue(check_name, m, r)) THEN "TypeError"
    ELSE ""

\* The errors of the database client (sqlalchemy.exc.DBAPIError).
DatabaseErrors == {"OperationalError", "ProgrammingError"}

\* run_check: the checker after one check.  Every exception is caught, logged
\* and counted as a failure, and leaves no entry in results.
run_check(checker, check_name, present, m, r, failing) ==
    LET error  == RaisedIn(check_name, present, m, r, failing)
        value  == QueryValue(check_name, m, r)
        passed == error = "" /\ ExpectedCondition(check_name, value)
    IN
    [checker EXCEPT
       !.checks_passed = IF passed THEN @ + 1 ELSE @,
       !.checks_failed = IF passed THEN @ ELSE @ + 1,
       !.results = IF error # "" THEN @
                   ELSE Append(@, [ check       |-> check_name,
                                    status      |-> IF passed THEN "PASSED" ELSE "FAILED",
                                    value       |-> value,
                                    description |-> Description(check_name) ]),
       !.log = Append(@, [ check   |-> check_name,
                           outcome |-> IF error # "" THEN "ERROR"
                                       ELSE IF passed THEN "PASSED" ELSE "FAILED",
                           error   |-> error ])]

run_movies_quality_checks ==
    << "Movies - Table Not Empty", "Movies - No NULL movieId",
       "Movies - No Duplicate movieId", "Movies - No NULL Titles",
       "Movies - No NULL Genres", "Movies - Valid Release Years",
       "Movies - Expected Row Count" >>

run_ratings_quality_checks ==
    << "Ratings - Table Not Empty", "Ratings - No NULL userId",
       "Ratings - No NULL movieId", "Ratings - No NULL Ratings",
       "Ratings - Valid Rating Range", "Ratings - Valid Rating Increments",
       "Ratings - Expected Row Count", "Ratings - Referential Integrity" >>

run_cross_table_checks ==
    << "Cross - Movies With Ratings", "Cross - Reasonable Average Rating" >>

\* The checks in the order data_quality.main runs them.
AllChecks ==
    run_movies_quality_checks \o run_ratings_quality_checks \o run_cross_table_checks

\* The checks run until one ends with an exception, which ends the run.
RECURSIVE RunChecksUntilError(_, _, _, _, _, _)
RunChecksUntilError(checker, names, present, m, r, failing) ==
    IF names = <<>> THEN checker
    ELSE IF RaisedIn(Head(names), present, m, r, failing) # ""
    THEN run_check(checker, Head(names), present, m, r, failing)
    ELSE RunChecksUntilError(run_check(checker, Head(names), present, m, r, failing),
                             Tail(names), present, m, r, failing)

RECURSIVE RunChecks(_, _, _, _, _, _)
RunChecks(checker, names, present, m, r, failing) ==
    IF names = <<>> THEN checker
    ELSE RunChecks(run_check(checker, Head(names), present, m, r, failing),
                   Tail(names), present, m, r, failing)

\* The checks whose connection or query fails in a run: none, one of them,
\* or all of them (the database cannot be reached).
QueryFaults ==
    { {}, {"Movies - No NULL Titles"}, {AllChecks[i] : i \in 1..Len(AllChecks)} }

\* get_summary, then main's return value.
QualityReturn(checker) ==
    IF checker.checks_failed > 0 THEN "False" ELSE "True"

\* data_quality.main: a new checker, every check, the summary.  It reads the
\* cleaned relations and writes none.
DataQuality ==
    /\ transform_pc \in {"idle", "done", "raised"}
    /\ quality_return = "not_run"
    /\ \E failing \in QueryFaults :
          LET checker == RunChecks(NewChecker, AllChecks, catalog,
                                   cleaned_movies, cleaned_ratings, failing)
          IN  /\ checks_passed' = checker.checks_passed
              /\ checks_failed' = checker.checks_failed
              /\ results' = checker.results
              /\ quality_log' = checker.log
              /\ quality_return' = QualityReturn(checker)
    /\ UNCHANGED <<vars_db, transform_pc, vars_load, vars_dag>>

\* create_engine_connection fails: main ends with the error before any check.
QualityRaise ==
    /\ transform_pc \in {"idle", "done", "raised"}
    /\ quality_return = "not_run"
    /\ quality_return' = "raised"
    /\ UNCHANGED <<vars_db, transform_pc, checks_passed, checks_failed, results,
                   quality_log, vars_load, vars_dag>>

\* The checker lives in the data_quality process and is gone when it exits.
GateIdle ==
    /\ checks_passed = 0
    /\ checks_failed = 0
    /\ results = <<>>
    /\ quality_return = "not_run"
    /\ quality_log = <<>>

GateReset ==
    /\ checks_passed' = 0
    /\ checks_failed' = 0
    /\ results' = <<>>
    /\ quality_return' = "not_run"
    /\ quality_log' = <<>>

\* clean_movies_table: drop, create-as-select and commit are one transaction.
CleanMovies ==
    /\ transform_pc \in {"idle", "done", "raised"}
    /\ "staging_movies" \in catalog
    /\ cleaned_movies' = DropTable(cleaned_movies) (+) CleanMoviesResult(staging_movies)
    /\ catalog' = catalog \cup {"cleaned_movies"}
    /\ transform_pc' = "movies_cleaned"
    /\ GateReset
    /\ UNCHANGED <<staging_movies, staging_ratings, cleaned_ratings, vars_wh, vars_load,
                   vars_dag>>

\* clean_ratings_table
CleanRatings ==
    /\ transform_pc = "movies_cleaned"
    /\ "staging_ratings" \in catalog
    /\ cleaned_ratings' \in {DropTable(cleaned_ratings) (+) c :
                               c \in CleanRatingsResults(staging_ratings)}
    /\ catalog' = catalog \cup {"cleaned_ratings"}
    /\ transform_pc' = "ratings_cleaned"
    /\ UNCHANGED <<staging_movies, staging_ratings, cleaned_movies, vars_wh, vars_gate,
                   vars_load, vars_dag>>

\* show_sample_data, then main returns: reads only.
ShowSampleData ==
    /\ transform_pc = "ratings_cleaned"
    /\ transform_pc' = "done"
    /\ UNCHANGED <<vars_db, vars_gate, vars_load, vars_dag>>

\* A statement of the transformer fails: the open transaction is rolled back,
\* the error is logged and raised again, and main ends with it.
TransformRaise ==
    /\ transform_pc \in {"idle", "movies_cleaned", "ratings_cleaned"}
    /\ transform_pc' = "raised"
    /\ UNCHANGED <<vars_db, vars_gate, vars_load, vars_dag>>

\* ------------------------------------------------------ warehouse builder
\* The columns movie_key, user_key, rating_key and created_at are left out of
\* the rows: no statement of the pipeline reads them.

\* The calls of create_warehouse.main with the bridge built second.
WarehouseOrderBridgeFirst ==
    << "create_dim_movies", "create_bridge_movie_genres", "create_dim_genres",
       "create_dim_users", "create_fact_ratings", "create_indexes",
       "verify_warehouse" >>

\* The calls of create_warehouse.main, in order.
WarehouseOrder ==
    << "create_dim_movies", "create_dim_genres", "create_dim_users",
       "create_bridge_movie_genres", "create_fact_ratings", "create_indexes",
       "verify_warehouse" >>

StepIndex(step) == CHOOSE i \in 1..Len(WarehouseOrder) : WarehouseOrder[i] = step

\* warehouse_pc is "idle" when main starts, then the name of the call that
\* has returned last, and "done" when the last call has returned.
StepBefore(step) ==
    IF StepIndex(step) = 1 THEN "idle" ELSE WarehouseOrder[StepIndex(step) - 1]

AfterStep(step) == IF StepIndex(step) = Len(WarehouseOrder) THEN "done" ELSE step

\* What a step of the warehouse builder leaves alone besides the database.
vars_not_db ==
    <<transform_pc, vars_gate, vars_load, vars_analytics, task_state, try_number, vars_later>>

\* INSERT INTO dim_movies ... FROM cleaned_movies: movie_id is UNIQUE NOT NULL
\* and title is NOT NULL; a row that breaks a constraint fails the statement.
DimMoviesInsertable(cm) ==
    /\ \A x \in BagToSet(cm) : ~IsNull(x.movieId) /\ ~IsNullText(x.title)
    /\ RowCount(cm) = Cardinality({x.movieId : x \in BagToSet(cm)})

DimMoviesRows(cm) ==
    SetToBag({ [ movie_id     |-> x.movieId,
                 title        |-> x.title,
                 clean_title  |-> x.clean_title,
                 release_year |-> x.release_year ] : x \in BagToSet(cm) })

\* SELECT DISTINCT TRIM(unnest(string_to_array(genres, '|'))) FROM
\* cleaned_movies WHERE genres IS NOT NULL AND genres != ''
GenreNames(cm) ==
    UNION { {Trim(string_to_array(x.genres)[i]) : i \in 1..Len(string_to_array(x.genres))} :
              x \in {y \in BagToSet(cm) : ~IsNullText(y.genres) /\ y.genres # <<>>} }

\* genre_key SERIAL: the keys 1, 2, ... of a new sequence, given to the names
\* in the order of ORDER BY genre_name.
DimGenresRows(cm) ==
    LET names == GenreNames(cm)
    IN  SetToBag({ [ genre_key  |-> 1 + Cardinality({o \in names : SortKey(o) < SortKey(n)}),
                     genre_name |-> n ] : n \in names })

\* INSERT INTO dim_users ... SELECT DISTINCT "userId" FROM cleaned_ratings:
\* user_id is UNIQUE NOT NULL.
DimUsersInsertable(cr) == \A x \in BagToSet(cr) : ~IsNull(x.userId)

DimUsersRows(cr) == SetToBag({ [user_id |-> x.userId] : x \in BagToSet(cr) })

\* The join with the first element of the array only, not with each one.
BridgeSelectFirstGenre(cm, dg) ==
    { [movie_id |-> m.movieId, genre_key |-> g.genre_key] :
        <<m, g>> \in { <<m, g>> \in BagToSet(cm) \X BagToSet(dg) :
                         /\ ~IsNullText(m.genres)
                         /\ string_to_array(m.genres) # <<>>
                         /\ Trim(string_to_array(m.genres)[1]) = g.genre_name } }

\* SELECT DISTINCT m."movieId", g.genre_key FROM cleaned_movies m CROSS JOIN
\* LATERAL unnest(string_to_array(m.genres, '|')) gn JOIN dim_genres g ON
\* TRIM(gn) = g.genre_name.  A NULL genres gives no row.
BridgeSelect(cm, dg) ==
    { [movie_id |-> m.movieId, genre_key |-> g.genre_key] :
        <<m, g>> \in { <<m, g>> \in BagToSet(cm) \X BagToSet(dg) :
                         /\ ~IsNullText(m.genres)
                         /\ \E i \in 1..Len(string_to_array(m.genres)) :
                               Trim(string_to_array(m.genres)[i]) = g.genre_name } }

\* movie_id is NOT NULL; the primary key holds of a SELECT DISTINCT.
BridgeInsertable(cm, dg) == \A b \in BridgeSelect(cm, dg) : ~IsNull(b.movie_id)

BridgeRows(cm, dg) == SetToBag(BridgeSelect(cm, dg))

\* INSERT INTO fact_ratings ... FROM cleaned_ratings: user_id, movie_id and
\* rating are NOT NULL.  DECIMAL(2,1) keeps one decimal, as a rating here has.
FactRatingsInsertable(cr) ==
    \A x \in BagToSet(cr) : ~IsNull(x.userId) /\ ~IsNull(x.movieId) /\ ~IsNull(x.rating)

FactRow(x) ==
    [ user_id          |-> x.userId,
      movie_id         |-> x.movieId,
      rating           |-> x.rating,
      rating_timestamp |-> x.rating_timestamp,
      rating_datetime  |-> x.rating_datetime ]

FactRatingsRows(cr) ==
    LET S == BagToSet(cr)
    IN  [ y \in {FactRow(x) : x \in S} |-> SumOver(cr, {x \in S : FactRow(x) = y}) ]

\* The indexes create_indexes creates, and the relation each is on.
IndexesOn(relation) ==
    CASE relation = "fact_ratings" ->
            {"idx_fact_ratings_user", "idx_fact_ratings_movie", "idx_fact_ratings_datetime"}
      [] relation = "bridge_movie_genres" -> {"idx_bridge_movie", "idx_bridge_genre"}
      [] OTHER -> {}

\* Each statement committed as it is executed: when the INSERT fails, the
\* DROP and the CREATE before it stand, and the relation has no row.
DropCommitted(old) == DropTable(old)

\* with engine.begin() as conn: a statement fails inside the block, and the
\* transaction of the DROP, the CREATE and the INSERT is rolled back.
Rollback(old) == old

\* create_engine_connection and create_dim_movies: drop, create and insert are
\* one transaction, rolled back when a statement fails; the error is raised.
CreateDimMovies ==
    /\ warehouse_pc = StepBefore("create_dim_movies")
    /\ IF "cleaned_movies" \in catalog /\ DimMoviesInsertable(cleaned_movies)
       THEN /\ dim_movies' = DropTable(dim_movies) (+) DimMoviesRows(cleaned_movies)
            /\ catalog' = catalog \cup {"dim_movies"}
            /\ warehouse_pc' = AfterStep("create_dim_movies")
            /\ rebuilt' = Append(rebuilt, "dim_movies")
       ELSE /\ warehouse_pc' = "raised"
            /\ dim_movies' = Rollback(dim_movies)
            /\ UNCHANGED <<catalog, rebuilt>>
    /\ UNCHANGED <<staging_movies, staging_ratings, cleaned_movies, cleaned_ratings,
                   dim_genres, dim_users, bridge_movie_genres, fact_ratings, indexes,
                   vars_not_db>>

\* create_dim_genres
CreateDimGenres ==
    /\ warehouse_pc = StepBefore("create_dim_genres")
    /\ IF "cleaned_movies" \in catalog
       THEN /\ dim_genres' = DropTable(dim_genres) (+) DimGenresRows(cleaned_movies)
            /\ catalog' = catalog \cup {"dim_genres"}
            /\ warehouse_pc' = AfterStep("create_dim_genres")
            /\ rebuilt' = Append(rebuilt, "dim_genres")
       ELSE /\ warehouse_pc' = "raised"
            /\ dim_genres' = Rollback(dim_genres)
            /\ UNCHANGED <<catalog, rebuilt>>
    /\ UNCHANGED <<staging_movies, staging_ratings, cleaned_movies, cleaned_ratings,
                   dim_movies, dim_users, bridge_movie_genres, fact_ratings, indexes,
                   vars_not_db>>

\* create_dim_users
CreateDimUsers ==
    /\ warehouse_pc = StepBefore("create_dim_users")
    /\ IF "cleaned_ratings" \in catalog /\ DimUsersInsertable(cleaned_ratings)
       THEN /\ dim_users' = DropTable(dim_users) (+) DimUsersRows(cleaned_ratings)
            /\ catalog' = catalog \cup {"dim_users"}
            /\ warehouse_pc' = AfterStep("create_dim_users")
            /\ rebuilt' = Append(rebuilt, "dim_users")
       ELSE /\ warehouse_pc' = "raised"
            /\ dim_users' = Rollback(dim_users)
            /\ UNCHANGED <<catalog, rebuilt>>
    /\ UNCHANGED <<staging_movies, staging_ratings, cleaned_movies, cleaned_ratings,
                   dim_movies, dim_genres, bridge_movie_genres, fact_ratings, indexes,
                   vars_not_db>>

\* create_bridge_movie_genres: dropping the relation drops its indexes.
CreateBridgeMovieGenres ==
    /\ warehouse_pc = StepBefore("create_bridge_movie_genres")
    /\ IF /\ {"cleaned_movies", "dim_genres"} \subseteq catalog
          /\ BridgeInsertable(cleaned_movies, dim_genres)
       THEN /\ bridge_movie_genres' = DropTable(bridge_movie_genres)
                                      (+) BridgeRows(cleaned_movies, dim_genres)
            /\ indexes' = indexes \ IndexesOn("bridge_movie_genres")
            /\ catalog' = catalog \cup {"bridge_movie_genres"}
            /\ warehouse_pc' = AfterStep("create_bridge_movie_genres")
            /\ rebuilt' = Append(rebuilt, "bridge_movie_genres")
       ELSE /\ warehouse_pc' = "raised"
            /\ bridge_movie_genres' = Rollback(bridge_movie_genres)
            /\ UNCHANGED <<indexes, catalog, rebuilt>>
    /\ UNCHANGED <<staging_movies, staging_ratings, cleaned_movies, cleaned_ratings,
                   dim_movies, dim_genres, dim_users, fact_ratings, vars_not_db>>

\* create_fact_ratings: dropping the relation drops its indexes.
CreateFactRatings ==
    /\ warehouse_pc = StepBefore("create_fact_ratings")
    /\ IF "cleaned_ratings" \in catalog /\ FactRatingsInsertable(cleaned_ratings)
       THEN /\ fact_ratings' = DropTable(fact_ratings) (+) FactRatingsRows(cleaned_ratings)
            /\ indexes' = indexes \ IndexesOn("fact_ratings")
            /\ catalog' = catalog \cup {"fact_ratings"}
            /\ warehouse_pc' = AfterStep("create_fact_ratings")
            /\ rebuilt' = Append(rebuilt, "fact_ratings")
       ELSE /\ warehouse_pc' = "raised"
            /\ fact_ratings' = Rollback(fact_ratings)
            /\ UNCHANGED <<indexes, catalog, rebuilt>>
    /\ UNCHANGED <<staging_movies, staging_ratings, cleaned_movies, cleaned_ratings,
                   dim_movies, dim_genres, dim_users, bridge_movie_genres, vars_not_db>>

\* create_indexes: CREATE INDEX IF NOT EXISTS, five times in one transaction.
CreateIndexes ==
    /\ warehouse_pc = StepBefore("create_indexes")
    /\ IF {"fact_ratings", "bridge_movie_genres"} \subseteq catalog
       THEN /\ indexes' = indexes \cup IndexesOn("fact_ratings")
                                  \cup IndexesOn("bridge_movie_genres")
            /\ warehouse_pc' = AfterStep("create_indexes")
            /\ rebuilt' = Append(rebuilt, "indexes")
       ELSE /\ warehouse_pc' = "raised"
            /\ UNCHANGED <<indexes, rebuilt>>
    /\ UNCHANGED <<catalog, staging_movies, staging_ratings, cleaned_movies,
                   cleaned_ratings, dim_movies, dim_genres, dim_users,
                   bridge_movie_genres, fact_ratings, vars_not_db>>

\* verify_warehouse, then main returns: counts the rows of the five relations.
VerifyWarehouse ==
    /\ warehouse_pc = StepBefore("verify_warehouse")
    /\ warehouse_pc' =
          IF {"dim_movies", "dim_genres", "dim_users", "bridge_movie_genres",
              "fact_ratings"} \subseteq catalog
          THEN AfterStep("verify_warehouse")
          ELSE "raised"
    /\ UNCHANGED <<vars_db, rebuilt, vars_not_db>>

\* The connection or a statement of the next call fails: its transaction is
\* rolled back, the error is logged and raised again, and main ends with it.
WarehouseRaise ==
    /\ warehouse_pc \notin {"done", "raised"}
    /\ warehouse_pc' = "raised"
    /\ UNCHANGED <<vars_db, rebuilt, vars_not_db>>

\* create_warehouse.main, one call at a time.
CreateWarehouse ==
    \/ CreateDimMovies
    \/ CreateDimGenres
    \/ CreateDimUsers
    \/ CreateBridgeMovieGenres
    \/ CreateFactRatings
    \/ CreateIndexes
    \/ VerifyWarehouse
    \/ WarehouseRaise

\* ------------------------------------------------------ analytics reporter
\* HAVING COUNT(f.rating) >= 100, LIMIT 10 and LIMIT 5.
MinRatings == 100
MovieLimit == 10
GenreLimit == 5

\* ROUND(AVG(f.rating)::numeric, 2), in hundredths of a star, of ratings held
\* in tenths: numeric rounds a half away from zero.
RoundedAvg(sum, count) == (20 * sum + count) \div (2 * count)

\* FROM fact_ratings f JOIN dim_movies m ON f.movie_id = m.movie_id: the fact
\* rows joined with row m.
RatingsOfMovie(fr, m) == {f \in BagToSet(fr) : f.movie_id = m.movie_id}

\* The rows S of table b, each as often as b holds it.
Restrict(b, S) == [x \in BagToSet(b) \cap S |-> b[x]]

\* SUM over a bag of numbers.
RECURSIVE SumOfBag(_)
SumOfBag(b) ==
    IF BagToSet(b) = {} THEN 0
    ELSE LET v == CHOOSE y \in BagToSet(b) : TRUE
         IN  v * b[v] + SumOfBag(Restrict(b, BagToSet(b) \ {v}))

RatingOf(f) == f.rating

\* COUNT(f.rating) over the rows S of fr: the rows whose rating is not NULL.
CountRating(fr, S) == BagCardinality(Restrict(fr, {f \in S : ~IsNull(f.rating)}))

\* SUM of f.rating over the rows S of fr, as AVG(f.rating) takes it.
SumRating(fr, S) ==
    SumOfBag(BagOfAll(RatingOf, Restrict(fr, {f \in S : ~IsNull(f.rating)})))

\* The query without its HAVING clause: every group is kept.
HavingAny(n) == TRUE

\* HAVING COUNT(f.rating) >= 100
HavingCount(n) == n >= MinRatings

\* SELECT m.movie_id, m.title, m.release_year, ROUND(AVG(f.rating)::numeric, 2)
\* as avg_rating, COUNT(f.rating) as num_ratings ... GROUP BY m.movie_id,
\* m.title, m.release_year HAVING ...: one row for each group kept.
MovieReportRows(fr, dm) ==
    { [ movie_id     |-> m.movie_id,
        title        |-> m.title,
        release_year |-> m.release_year,
        avg_rating   |-> RoundedAvg(SumRating(fr, RatingsOfMovie(fr, m)),
                                    CountRating(fr, RatingsOfMovie(fr, m))),
        num_ratings  |-> CountRating(fr, RatingsOfMovie(fr, m)) ] :
        m \in { x \in BagToSet(dm) :
                  /\ RatingsOfMovie(fr, x) # {}
                  /\ HavingCount(CountRating(fr, RatingsOfMovie(fr, x))) } }

\* ORDER BY avg_rating DESC, num_ratings DESC: a sorts strictly before b.
TopMoviesBefore(a, b) ==
    \/ a.avg_rating > b.avg_rating
    \/ a.avg_rating = b.avg_rating /\ a.num_ratings > b.num_ratings

\* ORDER BY avg_rating ASC, num_ratings DESC
LeastMoviesBefore(a, b) ==
    \/ a.avg_rating < b.avg_rating
    \/ a.avg_rating = b.avg_rating /\ a.num_ratings > b.num_ratings

\* FROM fact_ratings f JOIN bridge_movie_genres bmg ON f.movie_id =
\* bmg.movie_id JOIN dim_genres g ON bmg.genre_key = g.genre_key: the joined
\* rows of the group of genre_name.
RatingsOfGenre(fr, bmg, dg, genre_name) ==
    { j \in BagToSet(fr) \X BagToSet(bmg) \X BagToSet(dg) :
        /\ j[1].movie_id = j[2].movie_id
        /\ j[2].genre_key = j[3].genre_key
        /\ j[3].genre_name = genre_name }

\* The joined rows J whose rating is not NULL, each as often as the join
\* yields it.
Joined(fr, bmg, dg, J) ==
    [j \in {y \in J : ~IsNull(y[1].rating)} |-> fr[j[1]] * bmg[j[2]] * dg[j[3]]]

RatingOfJoined(j) == j[1].rating

\* COUNT(f.rating) and the SUM under AVG(f.rating), over joined rows J.
CountJoined(fr, bmg, dg, J) == BagCardinality(Joined(fr, bmg, dg, J))

SumJoined(fr, bmg, dg, J) == SumOfBag(BagOfAll(RatingOfJoined, Joined(fr, bmg, dg, J)))

\* SELECT g.genre_name, COUNT(f.rating) as num_ratings,
\* ROUND(AVG(f.rating)::numeric, 2) as avg_rating ... GROUP BY g.genre_name
GenreReportRows(fr, bmg, dg) ==
    { [ genre_name  |-> n,
        num_ratings |-> CountJoined(fr, bmg, dg, RatingsOfGenre(fr, bmg, dg, n)),
        avg_rating  |-> RoundedAvg(SumJoined(fr, bmg, dg, RatingsOfGenre(fr, bmg, dg, n)),
                                   CountJoined(fr, bmg, dg, RatingsOfGenre(fr, bmg, dg, n))) ] :
        n \in { g.genre_name : g \in { x \in BagToSet(dg) :
                                         RatingsOfGenre(fr, bmg, dg, x.genre_name) # {} } } }

\* ORDER BY num_ratings DESC, and ORDER BY num_ratings ASC
TopGenresBefore(a, b) == a.num_ratings > b.num_ratings

LeastGenresBefore(a, b) == a.num_ratings < b.num_ratings

\* ORDER BY: every order of the rows S in which no row comes after one it
\* sorts strictly before; before holds the pairs <<a, b>> with a strictly
\* before b.  Rows that tie come in an order PostgreSQL does not fix.
Orderings(S, before) ==
    { s \in [1..Cardinality(S) -> S] :
        \A i, j \in 1..Cardinality(S) : i < j => s[i] # s[j] /\ <<s[j], s[i]>> \notin before }

\* The four ORDER BY clauses, over the rows S.
TopMovies(S) == Orderings(S, {p \in S \X S : TopMoviesBefore(p[1], p[2])})

LeastMovies(S) == Orderings(S, {p \in S \X S : LeastMoviesBefore(p[1], p[2])})

TopGenres(S) == Orderings(S, {p \in S \X S : TopGenresBefore(p[1], p[2])})

LeastGenres(S) == Orderings(S, {p \in S \X S : LeastGenresBefore(p[1], p[2])})

\* LIMIT n
Limit(s, n) == SubSeq(s, 1, Min(n, Len(s)))

\* The calls of run_analytics.main, in its order; each is named as the file
\* it writes, less the ".csv".
AnalyticsOrder ==
    <<"top_10_movies_by_avg_rating", "least_10_movies_by_avg_rating",
      "top_5_genres_by_num_ratings", "least_5_genres_by_num_ratings">>

ReportIndex(report) == CHOOSE i \in 1..Len(AnalyticsOrder) : AnalyticsOrder[i] = report

\* analytics_pc is "idle" when main starts, then the name of the call that
\* has returned last, and "done" when the last call has returned.
ReportBefore(report) ==
    IF ReportIndex(report) = 1 THEN "idle" ELSE AnalyticsOrder[ReportIndex(report) - 1]

AfterReport(report) ==
    IF ReportIndex(report) = Len(AnalyticsOrder) THEN "done" ELSE report

\* The relations a report's query reads.
ReportTables(report) ==
    IF report \in {"top_10_movies_by_avg_rating", "least_10_movies_by_avg_rating"}
    THEN {"fact_ratings", "dim_movies"}
    ELSE {"fact_ratings", "bridge_movie_genres", "dim_genres"}

\* The header line df.to_csv(output_path, index=False) writes.
ReportColumns(report) ==
    IF report \in {"top_10_movies_by_avg_rating", "least_10_movies_by_avg_rating"}
    THEN <<"movie_id", "title", "release_year", "avg_rating", "num_ratings">>
    ELSE <<"genre_name", "num_ratings", "avg_rating">>

\* pd.read_sql(query, engine): every result the report's query can return.
read_sql(report, fr, dm, bmg, dg) ==
    CASE report = "top_10_movies_by_avg_rating" ->
            {Limit(s, MovieLimit) : s \in TopMovies(MovieReportRows(fr, dm))}
      [] report = "least_10_movies_by_avg_rating" ->
            {Limit(s, MovieLimit) : s \in LeastMovies(MovieReportRows(fr, dm))}
      [] report = "top_5_genres_by_num_ratings" ->
            {Limit(s, GenreLimit) :
                s \in TopGenres(GenreReportRows(fr, bmg, dg))}
      [] report = "least_5_genres_by_num_ratings" ->
            {Limit(s, GenreLimit) :
                s \in LeastGenres(GenreReportRows(fr, bmg, dg))}

\* df.to_csv(output_path, index=False): the file is created, or written over.
to_csv(files, report, df) ==
    [f \in DOMAIN files \cup {report} |-> IF f = report THEN df ELSE files[f]]

\* run_query_to_csv, as one of the four functions of main calls it: the query
\* is run and its result written to the report's file; an error is logged and
\* raised again, and main ends with it.
run_query_to_csv(report) ==
    /\ analytics_pc = ReportBefore(report)
    /\ IF ReportTables(report) \subseteq catalog
       THEN \E rows \in read_sql(report, fact_ratings, dim_movies, bridge_movie_genres,
                                 dim_genres) :
               /\ output_files' = to_csv(output_files, report,
                                         [columns |-> ReportColumns(report), rows |-> rows])
               /\ files_written' = Append(files_written, report)
               /\ analytics_pc' = AfterReport(report)
       ELSE /\ analytics_pc' = "raised"
            /\ UNCHANGED <<output_files, files_written>>
    /\ UNCHANGED <<vars_db, transform_pc, vars_gate, vars_load, warehouse_pc, rebuilt,
                   task_state, try_number, vars_later>>

top_10_movies_by_avg_rating == run_query_to_csv("top_10_movies_by_avg_rating")

least_10_movies_by_avg_rating == run_query_to_csv("least_10_movies_by_avg_rating")

top_5_genres_by_num_ratings == run_query_to_csv("top_5_genres_by_num_ratings")

least_5_genres_by_num_ratings == run_query_to_csv("least_5_genres_by_num_ratings")

\* The connection, the query or the writing of the file of the next call
\* fails: the error is logged and raised again, and main ends with it.
AnalyticsRaise ==
    /\ analytics_pc \notin {"done", "raised"}
    /\ analytics_pc' = "raised"
    /\ UNCHANGED <<vars_db, transform_pc, vars_gate, vars_load, warehouse_pc, rebuilt,
                   output_files, files_written, task_state, try_number, vars_later>>

\* run_analytics.main, one call at a time.
RunAnalytics ==
    \/ top_10_movies_by_avg_rating
    \/ least_10_movies_by_avg_rating
    \/ top_5_genres_by_num_ratings
    \/ least_5_genres_by_num_ratings
    \/ AnalyticsRaise

\* ------------------------------------------------------------ the DAG
\* The tasks of movielens_dag.py, each a BashOperator running one script.
Tasks == {"load_staging", "transform_data", "data_quality", "create_warehouse",
          "run_analytics"}

\* The chain with quality_task left out of it:
\* load_staging_task >> transform_task >> warehouse_task >> analytics_task.
UpstreamWithoutQuality(t) ==
    CASE t = "load_staging" -> {}
      [] t = "transform_data" -> {"load_staging"}
      [] t = "data_quality" -> {}
      [] t = "create_warehouse" -> {"transform_data"}
      [] t = "run_analytics" -> {"create_warehouse"}

\* load_staging_task >> transform_task >> quality_task >> warehouse_task >>
\* analytics_task: the tasks directly upstream of t.
UpstreamOf(t) ==
    CASE t = "load_staging" -> {}
      [] t = "transform_data" -> {"load_staging"}
      [] t = "data_quality" -> {"transform_data"}
      [] t = "create_warehouse" -> {"data_quality"}
      [] t = "run_analytics" -> {"create_warehouse"}

\* default_args['retries']
Retries == 1

\* How the script of task t ended: what main returned, or "raised".
MainOutcome(t) ==
    CASE t = "load_staging" -> IF load_pc = "raised" THEN "raised" ELSE "returned"
      [] t = "transform_data" -> IF transform_pc = "raised" THEN "raised" ELSE "returned"
      [] t = "data_quality" -> quality_return
      [] t = "create_warehouse" -> IF warehouse_pc = "raised" THEN "raised" ELSE "returned"
      [] t = "run_analytics" -> IF analytics_pc = "raised" THEN "raised" ELSE "returned"

\* The script of task t has ended.
ProcessEnded(t) ==
    CASE t = "load_staging" -> load_pc \in {"done", "raised"}
      [] t = "transform_data" -> transform_pc \in {"done", "raised"}
      [] t = "data_quality" -> quality_return # "not_run"
      [] t = "create_warehouse" -> warehouse_pc \in {"done", "raised"}
      [] t = "run_analytics" -> analytics_pc \in {"done", "raised"}

\* sys.exit(0 if main() else 1): a False from main becomes exit status 1.
ExitStatusOfReturn(outcome) == IF outcome \in {"raised", "False"} THEN 1 ELSE 0

\* if __name__ == "__main__": main() -- the value main returns is dropped; the
\* interpreter exits 1 on an uncaught exception and 0 otherwise.
ExitStatus(outcome) == IF outcome = "raised" THEN 1 ELSE 0

\* No DAG run: the scripts are run by hand.
NoDagRun ==
    /\ warehouse_pc = "idle"
    /\ rebuilt = <<>>
    /\ analytics_pc = "idle"
    /\ files_written = <<>>
    /\ task_state = [t \in Tasks |-> "none"]
    /\ try_number = [t \in Tasks |-> 0]
    /\ later_state = [t \in Tasks |-> "none"]
    /\ later_try = [t \in Tasks |-> 0]

\* The scheduler starts task t: every upstream task has succeeded (the
\* default trigger rule, all_success), and t is scheduled or up for retry.
\* The script starts from its first statement.
StartTask(t) ==
    /\ task_state[t] \in {"none", "up_for_retry"}
    /\ \A u \in UpstreamOf(t) : task_state[u] = "success"
    /\ task_state' = [task_state EXCEPT ![t] = "running"]
    /\ try_number' = [try_number EXCEPT ![t] = @ + 1]
    /\ IF t = "load_staging"
       THEN /\ load_pc' = "loading"
            /\ table_name' = "staging_movies"
            /\ load_i' = 0
            /\ rows_loaded' = 0
            /\ load_before' = staging_movies
            /\ movies_rows' = NULL
            /\ ratings_rows' = NULL
       ELSE UNCHANGED <<load_pc, table_name, load_i, rows_loaded, load_before,
                        movies_rows, ratings_rows>>
    /\ transform_pc' = IF t = "transform_data" THEN "idle" ELSE transform_pc
    /\ IF t = "data_quality" THEN GateReset ELSE UNCHANGED vars_gate
    /\ warehouse_pc' = IF t = "create_warehouse" THEN "idle" ELSE warehouse_pc
    /\ rebuilt' = IF t = "create_warehouse" THEN <<>> ELSE rebuilt
    /\ analytics_pc' = IF t = "run_analytics" THEN "idle" ELSE analytics_pc
    /\ files_written' = IF t = "run_analytics" THEN <<>> ELSE files_written
    /\ UNCHANGED <<vars_db, movies_csv, ratings_csv, chunksize, output_files, vars_later>>

\* The exit of task t under retries: 2, a third attempt after two failures.
TaskExitTwoRetries(t) ==
    /\ task_state[t] = "running"
    /\ ProcessEnded(t)
    /\ task_state' =
          [task_state EXCEPT ![t] =
              IF ExitStatus(MainOutcome(t)) = 0 THEN "success"
              ELSE IF try_number[t] <= Retries + 1 THEN "up_for_retry"
              ELSE "failed"]
    /\ UNCHANGED <<vars_db, transform_pc, vars_gate, vars_load, warehouse_pc, rebuilt,
                   vars_analytics, try_number, vars_later>>

\* The script of task t has exited: status 0 marks the task a success; any
\* other status marks it up for retry while tries remain, and failed after.
TaskExit(t) ==
    /\ task_state[t] = "running"
    /\ ProcessEnded(t)
    /\ task_state' =
          [task_state EXCEPT ![t] =
              IF ExitStatus(MainOutcome(t)) = 0 THEN "success"
              ELSE IF try_number[t] <= Retries THEN "up_for_retry"
              ELSE "failed"]
    /\ UNCHANGED <<vars_db, transform_pc, vars_gate, vars_load, warehouse_pc, rebuilt,
                   vars_analytics, try_number, vars_later>>

\* A task with a failed upstream task is never run.
UpstreamFailed(t) ==
    /\ task_state[t] = "none"
    /\ \E u \in UpstreamOf(t) : task_state[u] \in {"failed", "upstream_failed"}
    /\ task_state' = [task_state EXCEPT ![t] = "upstream_failed"]
    /\ UNCHANGED <<vars_db, transform_pc, vars_gate, vars_load, warehouse_pc, rebuilt,
                   vars_analytics, try_number, vars_later>>

\* The DAG sets no max_active_runs, so the scheduler creates the run of the
\* next schedule time ('0 12 * * *') whether or not the run before it has
\* ended, and schedules its tasks by the same rules.  Of the later run's
\* scripts only the exit is represented.
vars_run == <<vars_db, transform_pc, vars_gate, vars_load, warehouse_pc, rebuilt,
              vars_analytics, task_state, try_number>>

LaterStartTask(t) ==
    /\ later_state[t] \in {"none", "up_for_retry"}
    /\ \A u \in UpstreamOf(t) : later_state[u] = "success"
    /\ later_state' = [later_state EXCEPT ![t] = "running"]
    /\ later_try' = [later_try EXCEPT ![t] = @ + 1]
    /\ UNCHANGED vars_run

LaterTaskExit(t) ==
    /\ later_state[t] = "running"
    /\ \E status \in {0, 1} :
          later_state' =
             [later_state EXCEPT ![t] =
                 IF status = 0 THEN "success"
                 ELSE IF later_try[t] <= Retries THEN "up_for_retry"
                 ELSE "failed"]
    /\ UNCHANGED <<vars_run, later_try>>

LaterUpstreamFailed(t) ==
    /\ later_state[t] = "none"
    /\ \E u \in UpstreamOf(t) : later_state[u] \in {"failed", "upstream_failed"}
    /\ later_state' = [later_state EXCEPT ![t] = "upstream_failed"]
    /\ UNCHANGED <<vars_run, later_try>>

\* The steps of the scripts while the scheduler runs them as tasks.
LoadStagingTask ==
    /\ task_state["load_staging"] = "running"
    /\ (LoadChunk \/ LoadRaise \/ VerifyStagingTables)

TransformDataTask ==
    /\ task_state["transform_data"] = "running"
    /\ transform_pc \notin {"done", "raised"}
    /\ (CleanMovies \/ CleanRatings \/ ShowSampleData \/ TransformRaise)

DataQualityTask ==
    /\ task_state["data_quality"] = "running"
    /\ (DataQuality \/ QualityRaise)

CreateWarehouseTask ==
    /\ task_state["create_warehouse"] = "running"
    /\ CreateWarehouse

RunAnalyticsTask ==
    /\ task_state["run_analytics"] = "running"
    /\ RunAnalytics

\* The rows of a relation as the lines of a file, in some order.
RECURSIVE BagToSeq(_)
BagToSeq(b) ==
    IF b = EmptyBag THEN <<>>
    ELSE LET x == CHOOSE y \in BagToSet(b) : TRUE
         IN  <<x>> \o BagToSeq(b (-) SetToBag({x}))

\* load_staging.main has run over the two files: it has loaded them into the
\* staging relations, or has raised at the first file without a data row.
LoaderDone ==
    /\ movies_csv = BagToSeq(staging_movies)
    /\ ratings_csv = BagToSeq(staging_ratings)
    /\ chunksize = 1
    /\ load_pc = IF movies_csv = <<>> \/ ratings_csv = <<>> THEN "raised" ELSE "done"
    /\ table_name = IF movies_csv = <<>> THEN "staging_movies" ELSE "staging_ratings"
    /\ load_i = 0
    /\ rows_loaded = 0
    /\ load_before = EmptyBag
    /\ movies_rows = IF movies_csv = <<>> THEN NULL ELSE RowCount(staging_movies)
    /\ ratings_rows = IF movies_csv = <<>> \/ ratings_csv = <<>>
                      THEN NULL ELSE RowCount(staging_ratings)

\* What an earlier run left in a staging relation.
StaleMovies ==
    SetToBag({[movieId |-> 2, title |-> <<"B">>, genres |-> NullText]})

StaleRatings ==
    SetToBag({[userId |-> 1, movieId |-> 2, rating |-> 5, timestamp |-> NULL]})

AllRelations ==
    {"staging_movies", "staging_ratings", "cleaned_movies", "cleaned_ratings",
     "dim_movies", "dim_genres", "dim_users", "bridge_movie_genres", "fact_ratings"}

AllIndexes == IndexesOn("fact_ratings") \cup IndexesOn("bridge_movie_genres")

\* A database in which the warehouse builder has never run.
NoWarehouse ==
    /\ dim_movies = EmptyBag
    /\ dim_genres = EmptyBag
    /\ dim_users = EmptyBag
    /\ bridge_movie_genres = EmptyBag
    /\ fact_ratings = EmptyBag
    /\ indexes = {}

\* The warehouse an earlier run over StaleMovies and StaleRatings left.
StaleWarehouse ==
    /\ dim_movies = DimMoviesRows(CleanMoviesResult(StaleMovies))
    /\ dim_genres = DimGenresRows(CleanMoviesResult(StaleMovies))
    /\ dim_users \in {DimUsersRows(c) : c \in CleanRatingsResults(StaleRatings)}
    /\ bridge_movie_genres = BridgeRows(CleanMoviesResult(StaleMovies),
                                        DimGenresRows(CleanMoviesResult(StaleMovies)))
    /\ fact_ratings \in {FactRatingsRows(c) : c \in CleanRatingsResults(StaleRatings)}
    /\ indexes = AllIndexes

\* The output directory holds no file.
NoOutputFiles == output_files = [f \in {} |-> <<>>]

\* The output directory as an earlier run over the warehouse of StaleMovies
\* and StaleRatings left it: no movie has 100 ratings and no movie has a
\* genre, so each of the four files holds its header line and no row.
StaleOutputFiles ==
    output_files = [f \in {AnalyticsOrder[i] : i \in 1..Len(AnalyticsOrder)} |->
                       [columns |-> ReportColumns(f), rows |-> <<>>]]

\* A new database.
NewDatabase ==
    /\ catalog = {}
    /\ staging_movies = EmptyBag
    /\ staging_ratings = EmptyBag
    /\ cleaned_movies = EmptyBag
    /\ cleaned_ratings = EmptyBag
    /\ NoWarehouse

\* The database an earlier run of the whole pipeline left.
StaleDatabase ==
    /\ catalog = AllRelations
    /\ staging_movies = StaleMovies
    /\ staging_ratings = StaleRatings
    /\ cleaned_movies = CleanMoviesResult(StaleMovies)
    /\ cleaned_ratings \in CleanRatingsResults(StaleRatings)
    /\ StaleWarehouse

MovieTables == BagsUpTo(MovieRows, MaxMovieRows)
RatingTables == BagsUpTo(RatingRows, MaxRatingRows)

InitTransform ==
    /\ catalog = {"staging_movies", "staging_ratings"}
    /\ \/ staging_movies \in MovieTables /\ staging_ratings = ScenarioRatings
       \/ staging_movies = ScenarioMovies /\ staging_ratings \in RatingTables
    /\ cleaned_movies = EmptyBag
    /\ cleaned_ratings = EmptyBag
    /\ NoWarehouse
    /\ transform_pc = "idle"
    /\ GateIdle
    /\ LoaderDone
    /\ NoOutputFiles
    /\ NoDagRun

NextTransform == CleanMovies \/ CleanRatings \/ ShowSampleData \/ TransformRaise

SpecTransform == InitTransform /\ [][NextTransform]_vars

\* --------------------------------------------- the warehouse builder's runs
\* transform_data.main has built the cleaned relations from the staging ones.
TransformerDone ==
    /\ cleaned_movies = CleanMoviesResult(staging_movies)
    /\ cleaned_ratings \in CleanRatingsResults(staging_ratings)
    /\ transform_pc = "done"

\* The movies of these runs: few titles, and every shape of genre list.
WarehouseMovieRows ==
    [ movieId : MovieIds,
      title   : {NullText, <<"B">>},
      genres  : GenreTexts \cup {<<"Action", "|", " ", "Action">>} ]

\* create_warehouse.main is about to run, by hand, after the loader and the
\* transformer: the warehouse is new, or an earlier run's.
InitWarehouse ==
    /\ staging_movies \in BagsUpTo(WarehouseMovieRows, MaxMovieRows)
    /\ staging_ratings = ScenarioRatings
    /\ TransformerDone
    /\ \/ NoWarehouse /\ catalog = {"staging_movies", "staging_ratings",
                                     "cleaned_movies", "cleaned_ratings"}
       \/ StaleWarehouse /\ catalog = AllRelations
    /\ GateIdle
    /\ LoaderDone
    /\ NoOutputFiles
    /\ NoDagRun

NextWarehouse == CreateWarehouse

SpecWarehouse == InitWarehouse /\ [][NextWarehouse]_vars


\* ------------------------------------------- the analytics reporter's runs
\* How many users have rated a movie: none, one, and just under, at and over
\* the minimum of the movie reports.
RatingCounts == {0, 1, MinRatings - 1, MinRatings, MinRatings + 1}

\* The warehouse create_warehouse.main builds from the cleaned relations.
WarehouseBuilt ==
    /\ dim_movies = DimMoviesRows(cleaned_movies)
    /\ dim_genres = DimGenresRows(cleaned_movies)
    /\ dim_users = DimUsersRows(cleaned_ratings)
    /\ bridge_movie_genres = BridgeRows(cleaned_movies, dim_genres)
    /\ fact_ratings = FactRatingsRows(cleaned_ratings)
    /\ indexes = AllIndexes

\* ratings.csv with the ratings of n1 users for movie 1, then of n2 for movie 2.
RatingsFile(n1, n2) ==
    [i \in 1..(n1 + n2) |->
        IF i <= n1
        THEN [userId |-> i, movieId |-> 1, rating |-> 5 * (1 + (i % 10)), timestamp |-> 100]
        ELSE [userId |-> i - n1, movieId |-> 2, rating |-> 5 * (1 + ((i - n1) % 10)),
              timestamp |-> 100]]

\* run_analytics.main is about to run, by hand, after the loader, the
\* transformer and (but in one case) the warehouse builder.  Every row of
\* ratings.csv is valid and the only one of its pair, so the loader has
\* loaded and the transformer has kept each.
InitAnalytics ==
    /\ movies_csv = BagToSeq(ScenarioMovies)
    /\ ratings_csv \in {RatingsFile(n1, n2) : n1 \in RatingCounts, n2 \in RatingCounts \ {0}}
    /\ chunksize = 1
    /\ load_pc = "done"
    /\ table_name = "staging_ratings"
    /\ load_i = 0
    /\ rows_loaded = 0
    /\ load_before = EmptyBag
    /\ movies_rows = Len(movies_csv)
    /\ ratings_rows = Len(ratings_csv)
    /\ staging_movies = ScenarioMovies
    /\ staging_ratings = SetToBag({ratings_csv[i] : i \in 1..Len(ratings_csv)})
    /\ cleaned_movies = CleanMoviesResult(staging_movies)
    /\ cleaned_ratings = SetToBag({CleanRatingRow(r) : r \in BagToSet(staging_ratings)})
    /\ transform_pc = "done"
    /\ \/ WarehouseBuilt /\ catalog = AllRelations /\ warehouse_pc = "done"
       \/ /\ NoWarehouse
          /\ catalog = {"staging_movies", "staging_ratings", "cleaned_movies",
                        "cleaned_ratings"}
          /\ warehouse_pc = "idle"
    /\ rebuilt = <<>>
    /\ GateIdle
    /\ (NoOutputFiles \/ StaleOutputFiles)
    /\ analytics_pc = "idle"
    /\ files_written = <<>>
    /\ task_state = [t \in Tasks |-> "none"]
    /\ try_number = [t \in Tasks |-> 0]
    /\ later_state = [t \in Tasks |-> "none"]
    /\ later_try = [t \in Tasks |-> 0]

NextAnalytics == RunAnalytics

SpecAnalytics == InitAnalytics /\ [][NextAnalytics]_vars


\* ------------------------------------------------- claims: the transformer
\* A staging row with user, movie and rating present and 0.5 <= rating <= 5.0.
Valid(r) ==
    /\ r.userId # NULL /\ r.movieId # NULL /\ r.rating # NULL
    /\ 5 <= r.rating /\ r.rating <= 50

ValidRows == {r \in BagToSet(staging_ratings) : Valid(r)}

ValidOfPair(k) == {r \in ValidRows : <<r.userId, r.movieId>> = k}

\* SQL's MAX over a pair's timestamps: NULLs are skipped, NULL when all are NULL.
MaxTimestamp(k) ==
    LET known == {r.timestamp : r \in ValidOfPair(k)} \ {NULL}
    IN  IF known = {} THEN NULL ELSE CHOOSE t \in known : \A u \in known : u <= t

CleanedOfPair(k) ==
    {x \in BagToSet(cleaned_ratings) : <<x.userId, x.movieId>> = k}

RatingsCleaned == "cleaned_ratings" \in catalog

MoviesCleaned == "cleaned_movies" \in catalog

\* C1: after clean_ratings_table, every (userId, movieId) pair with a valid
\* staging row has exactly one row in cleaned_ratings, and that row carries
\* the maximum timestamp among the pair's valid staging rows.
C1_LatestTimestampKept ==
    RatingsCleaned =>
        \A k \in {<<r.userId, r.movieId>> : r \in ValidRows} :
            /\ CountIn(cleaned_ratings, CleanedOfPair(k)) = 1
            /\ \A x \in CleanedOfPair(k) : x.rating_timestamp = MaxTimestamp(k)

\* C2: after clean_ratings_table, no two rows of cleaned_ratings share a
\* (userId, movieId) pair.
C2_RatingPairUnique ==
    RatingsCleaned =>
        \A x \in BagToSet(cleaned_ratings) :
            CountIn(cleaned_ratings, CleanedOfPair(<<x.userId, x.movieId>>)) = 1

\* C2's case: one pair had two different valid staging rows, and one is kept.
C2_Witness ==
    /\ RatingsCleaned
    /\ \E a, b \in ValidRows : a # b /\ a.userId = b.userId /\ a.movieId = b.movieId
    /\ RowCount(cleaned_ratings) = 1

\* C3: after clean_movies_table, every row of cleaned_movies has a movieId
\* and no two rows share one.
C3_MovieIdUniqueNonNull ==
    MoviesCleaned =>
        \A x \in BagToSet(cleaned_movies) :
            /\ x.movieId # NULL
            /\ CountIn(cleaned_movies,
                       {y \in BagToSet(cleaned_movies) : y.movieId = x.movieId}) = 1

\* C4: after clean_ratings_table, every row of cleaned_ratings has a userId,
\* a movieId and a rating, and the rating is between 0.5 and 5.0.
C4_RatingsPresentAndInRange ==
    RatingsCleaned =>
        \A x \in BagToSet(cleaned_ratings) :
            /\ x.userId # NULL /\ x.movieId # NULL /\ x.rating # NULL
            /\ 5 <= x.rating /\ x.rating <= 50

\* C4's case: staging held a row above the range and a valid one; only the
\* valid one is in cleaned_ratings.
C4_Witness ==
    /\ RatingsCleaned
    /\ \E r \in BagToSet(staging_ratings) :
          r.userId # NULL /\ r.movieId # NULL /\ r.rating # NULL /\ r.rating > 50
    /\ RowCount(cleaned_ratings) = 1

\* C5: with the staging relations fixed, a run of clean_movies_table or
\* clean_ratings_table over relations an earlier run built leaves
\* cleaned_movies and cleaned_ratings with the same rows.
C5_TransformerIdempotent ==
    [][ (MoviesCleaned /\ RatingsCleaned) =>
            (cleaned_movies' = cleaned_movies /\ cleaned_ratings' = cleaned_ratings) ]_vars

\* C6: once the transformer and the quality gate have run, every movieId of
\* cleaned_ratings is a movieId of cleaned_movies.
C6_RatedMoviesExist ==
    quality_return \in {"True", "False"} =>
        \A x \in BagToSet(cleaned_ratings) :
            \E y \in BagToSet(cleaned_movies) : y.movieId = x.movieId


\* ------------------------------------------------------ the loader's runs
SeqsUpTo(S, n) == UNION {[1..k -> S] : k \in 0..n}

FileMovieRows == BagToSet(ScenarioMovies)

FileRatingRows == BagToSet(ScenarioRatings)

\* load_staging.main is about to load movies.csv: the database is new, or
\* holds an earlier run's staging relations.
InitLoad ==
    /\ movies_csv \in SeqsUpTo(FileMovieRows, MaxFileRows)
    /\ ratings_csv \in SeqsUpTo(FileRatingRows, MaxFileRows)
    /\ chunksize \in 1..MaxChunkSize
    /\ \/ catalog = {} /\ staging_movies = EmptyBag /\ staging_ratings = EmptyBag
       \/ /\ catalog = {"staging_movies", "staging_ratings"}
          /\ staging_movies = StaleMovies
          /\ staging_ratings = StaleRatings
    /\ cleaned_movies = EmptyBag
    /\ cleaned_ratings = EmptyBag
    /\ NoWarehouse
    /\ transform_pc = "idle"
    /\ GateIdle
    /\ load_pc = "loading"
    /\ table_name = "staging_movies"
    /\ load_i = 0
    /\ rows_loaded = 0
    /\ load_before = staging_movies
    /\ movies_rows = NULL
    /\ ratings_rows = NULL
    /\ NoOutputFiles
    /\ NoDagRun

NextLoad == LoadChunk \/ LoadRaise \/ VerifyStagingTables

SpecLoad == InitLoad /\ [][NextLoad]_vars

\* C7: whenever a load_csv_to_staging call has ended, by returning or by
\* raising, its target relation holds exactly the file's rows or exactly the
\* rows it held when the call began.
C7_LoadAtomic ==
    /\ load_pc = "raised" =>
          \/ RelationOf(table_name) = SeqToBag(FileOf(table_name))
          \/ RelationOf(table_name) = load_before
    /\ movies_rows # NULL => staging_movies = SeqToBag(movies_csv)
    /\ ratings_rows # NULL => staging_ratings = SeqToBag(ratings_csv)

\* C8: when load_csv_to_staging has returned, the target relation holds
\* exactly the file's rows and the count returned is the file's row count.
C8_LoadReplacesWithFile ==
    /\ movies_rows # NULL =>
          staging_movies = SeqToBag(movies_csv) /\ movies_rows = Len(movies_csv)
    /\ ratings_rows # NULL =>
          staging_ratings = SeqToBag(ratings_csv) /\ ratings_rows = Len(ratings_csv)

\* C8's case: a file of several chunks, the last one short, has been loaded
\* over an earlier run's rows.
C8_Witness ==
    /\ load_pc = "done"
    /\ Len(ratings_csv) > chunksize
    /\ Len(ratings_csv) % chunksize # 0
    /\ load_before = StaleRatings
    /\ staging_ratings = SeqToBag(ratings_csv)


\* ------------------------------------------------------- the pipeline run
\* The files of the end-to-end scenario, files with no data row, a movies file
\* without movie 2, and a ratings file with two ratings of one timestamp.
PipelineMovieFiles ==
    { <<>>,
      << [movieId |-> 1, title |-> <<"A", " ", "(", "2", "0", "0", "0", ")">>,
          genres |-> <<"Action">>] >>,
      << [movieId |-> 1, title |-> <<"A", " ", "(", "2", "0", "0", "0", ")">>,
          genres |-> <<"Action">>],
         [movieId |-> 2, title |-> <<"B">>, genres |-> <<"Comedy">>] >> }

PipelineRatingFiles ==
    { <<>>,
      << [userId |-> 1, movieId |-> 1, rating |-> 40, timestamp |-> 100],
         [userId |-> 1, movieId |-> 1, rating |-> 50, timestamp |-> 200],
         [userId |-> 2, movieId |-> 2, rating |-> 30, timestamp |-> 50] >>,
      << [userId |-> 1, movieId |-> 1, rating |-> 40, timestamp |-> 100],
         [userId |-> 1, movieId |-> 1, rating |-> 50, timestamp |-> 100] >> }

\* One run of the DAG over the two files: the database is new, or holds what
\* an earlier run left.
Init ==
    /\ movies_csv \in PipelineMovieFiles
    /\ ratings_csv \in PipelineRatingFiles
    /\ chunksize \in 1..MaxChunkSize
    /\ \/ NewDatabase /\ NoOutputFiles
       \/ StaleDatabase /\ StaleOutputFiles
    /\ transform_pc = "idle"
    /\ GateIdle
    /\ load_pc = "done"
    /\ table_name = "staging_ratings"
    /\ load_i = 0
    /\ rows_loaded = 0
    /\ load_before = EmptyBag
    /\ movies_rows = NULL
    /\ ratings_rows = NULL
    /\ NoDagRun

Next ==
    \/ \E t \in Tasks : StartTask(t)
    \/ \E t \in Tasks : TaskExit(t)
    \/ \E t \in Tasks : UpstreamFailed(t)
    \/ LoadStagingTask
    \/ TransformDataTask
    \/ DataQualityTask
    \/ CreateWarehouseTask
    \/ RunAnalyticsTask

Spec == Init /\ [][Next]_vars

\* One run of the DAG over the scenario's files, with the scheduler and the
\* scripts it starts making progress: a task that can start is started, a
\* running script takes its next step, and its exit is seen.
InitLive ==
    /\ Init
    /\ movies_csv = BagToSeq(ScenarioMovies)
    /\ ratings_csv = BagToSeq(ScenarioRatings)
    /\ chunksize = MaxChunkSize

SpecLive == InitLive /\ [][Next]_vars /\ WF_vars(Next)

\* Two DAG runs of consecutive schedule times, over a new database.
InitRuns == InitLive /\ NewDatabase

NextRuns ==
    \/ Next
    \/ \E t \in Tasks : LaterStartTask(t)
    \/ \E t \in Tasks : LaterTaskExit(t)
    \/ \E t \in Tasks : LaterUpstreamFailed(t)

SpecRuns == InitRuns /\ [][NextRuns]_vars


\* ------------------------------------------------------- claims: the DAG
Stages ==
    <<"load_staging", "transform_data", "data_quality", "create_warehouse",
      "run_analytics">>

\* Task t has been started in this run.
Started(t) == task_state[t] \in {"running", "success", "up_for_retry", "failed"}

\* C9: in a pipeline run a stage has started only if the stage before it, in
\* the order load_staging, transform_data, data_quality, create_warehouse,
\* run_analytics, has exited successfully.
C9_StagesInOrder ==
    \A i \in 2..Len(Stages) :
        Started(Stages[i]) => task_state[Stages[i - 1]] = "success"

\* C9's case: the last stage runs, after the four before it have succeeded.
C9_Witness ==
    /\ task_state["run_analytics"] = "running"
    /\ \A i \in 1..4 : task_state[Stages[i]] = "success"

\* C10: a data_quality run whose main returned False is not a failure for
\* the scheduler: the task is a success once its exit is seen, and neither
\* create_warehouse nor run_analytics is kept from running by it.
C10_GateObservational ==
    (quality_return = "False" /\ checks_failed > 0) =>
        /\ task_state["data_quality"] \in {"running", "success"}
        /\ task_state["create_warehouse"] # "upstream_failed"
        /\ task_state["run_analytics"] = "upstream_failed" =>
              task_state["create_warehouse"] = "failed"

\* C10's case: assertions failed, and both later stages have run in the run.
C10_Witness ==
    /\ quality_return = "False"
    /\ checks_failed > 0
    /\ task_state["data_quality"] = "success"
    /\ task_state["create_warehouse"] = "success"
    /\ task_state["run_analytics"] = "success"


\* ----------------------------------------------- claims: error propagation
\* C11: a database error (the database unreachable, a statement failing)
\* raised by an operation of a stage ends the stage with that error.  The
\* loader, the transformer, the warehouse builder and the reporter end
\* "raised" by construction of their steps; for the quality gate, a run_check
\* that has logged a database error means main ended with the error, and the
\* scheduler does not see the stage succeed.
C11_DatabaseErrorsFatal ==
    \A i \in 1..Len(quality_log) :
        quality_log[i].error \in DatabaseErrors =>
            /\ quality_return = "raised"
            /\ task_state["data_quality"] # "success"


\* ------------------------------------------------ claims: the quality gate
\* The gate's main has run to its return.
GateReturned == quality_return \in {"True", "False"}

\* C12: a quality gate run that returns has executed the 7 movie checks, the
\* 8 rating checks and the 2 cross-table checks, each once and in the order
\* of the list, whatever the earlier checks' outcomes were; the summary's
\* total, checks_passed + checks_failed, is 17.
C12_EveryCheckRunsOnce ==
    GateReturned =>
        /\ Len(run_movies_quality_checks) = 7
        /\ Len(run_ratings_quality_checks) = 8
        /\ Len(run_cross_table_checks) = 2
        /\ [i \in 1..Len(quality_log) |-> quality_log[i].check] = AllChecks
        /\ checks_passed + checks_failed = 17

\* C12's case: in one run a check passed, a later one ended with an error,
\* and one after that failed its predicate.
C12_Witness ==
    /\ GateReturned
    /\ \E i, j, k \in 1..Len(quality_log) :
          /\ i < j /\ j < k
          /\ quality_log[i].outcome = "PASSED"
          /\ quality_log[j].outcome = "ERROR"
          /\ quality_log[k].outcome = "FAILED"

\* C13: whenever the gate has run checks, results holds one entry for each
\* check executed: Len(results) = checks_passed + checks_failed.
C13_EveryCheckRecorded ==
    Len(results) = checks_passed + checks_failed


\* ------------------------------------------------------- claims: retries
\* The tasks downstream of t in the chain.
RECURSIVE Downstream(_)
Downstream(t) ==
    LET direct == {d \in Tasks : t \in UpstreamOf(d)}
    IN  direct \cup UNION {Downstream(d) : d \in direct}

\* The DAG run has ended: no task is left to run.
RunEnded == \A t \in Tasks : task_state[t] \in {"success", "failed", "upstream_failed"}

\* A task is attempted at most twice, fails only by failing twice, and after
\* it has failed no task downstream of it has been or is started.
RetryBound ==
    \A t \in Tasks :
        /\ try_number[t] <= 2
        /\ task_state[t] = "failed" =>
              /\ try_number[t] = 2
              /\ \A d \in Downstream(t) :
                    try_number[d] = 0 /\ task_state[d] \in {"none", "upstream_failed"}

\* C14: in a pipeline run each stage is attempted at most twice; when both
\* attempts fail the stage is failed and no downstream stage starts; and the
\* run ends: from some point on every task is a success, failed or
\* upstream_failed.
C14_RetryBounded == []RetryBound /\ <>[]RunEnded

\* C14's case: a stage has failed twice and the stages after it are not run.
C14_Witness ==
    /\ task_state["transform_data"] = "failed"
    /\ try_number["transform_data"] = 2
    /\ try_number["load_staging"] = 2
    /\ task_state["run_analytics"] = "upstream_failed"
    /\ RunEnded


\* --------------------------------------------------- claims: concurrency
\* The stages that are executing, in either DAG run.
Executing ==
    {<<"run", t>> : t \in {u \in Tasks : task_state[u] = "running"}}
      \cup {<<"later run", t>> : t \in {u \in Tasks : later_state[u] = "running"}}

\* C15: at every instant at most one stage is executing, counting the stages
\* of every active DAG run.
C15_OneStageAtATime == Cardinality(Executing) <= 1


\* ---------------------------------------------- claims: full replacement
\* Every task of the DAG run has succeeded.
AllSucceeded == \A t \in Tasks : task_state[t] = "success"

\* C16: after a pipeline run in which all five stages succeeded, each staging
\* relation holds the rows of its file and nothing else, each cleaned
\* relation what the transformer derives from those rows, and each warehouse
\* relation what the builder derives from the cleaned ones: no row that was
\* in the database before the run, or that a failed attempt left, remains.
C16_FullReplacement ==
    AllSucceeded =>
        /\ staging_movies = SeqToBag(movies_csv)
        /\ staging_ratings = SeqToBag(ratings_csv)
        /\ cleaned_movies = CleanMoviesResult(SeqToBag(movies_csv))
        /\ cleaned_ratings \in CleanRatingsResults(SeqToBag(ratings_csv))
        /\ dim_movies = DimMoviesRows(cleaned_movies)
        /\ dim_genres = DimGenresRows(cleaned_movies)
        /\ dim_users = DimUsersRows(cleaned_ratings)
        /\ bridge_movie_genres = BridgeRows(cleaned_movies, dim_genres)
        /\ fact_ratings = FactRatingsRows(cleaned_ratings)

\* C16's case: the first attempt of the loader failed after it had written
\* one chunk of ratings.csv, the loader was retried, and all stages succeeded.
C16_Witness ==
    /\ AllSucceeded
    /\ try_number["load_staging"] = 2
    /\ Len(ratings_csv) > chunksize
    /\ load_before = SeqToBag(SubSeq(ratings_csv, 1, chunksize))


\* ------------------------------------------- claims: the cleaned movies
\* C17: for every row of cleaned_movies, when the trimmed title ends with a
\* parenthesized four-digit year, release_year is that year and clean_title
\* is the title without that suffix; otherwise release_year is NULL and
\* clean_title is the trimmed title.
C17_YearExtracted ==
    MoviesCleaned =>
        \A x \in BagToSet(cleaned_movies) :
            IF MatchesYear(x.title)
            THEN /\ x.release_year = ExtractYear(x.title)
                 /\ x.clean_title = Trim(SubSeq(x.title, 1, Len(x.title) - 6))
            ELSE /\ x.release_year = NULL
                 /\ x.clean_title = x.title

\* C18: no row of cleaned_movies has a NULL or an empty genres, and a staging
\* movie with a NULL or empty genre list has the genres "Unknown" in
\* cleaned_movies.
C18_GenresDefaulted ==
    MoviesCleaned =>
        /\ \A x \in BagToSet(cleaned_movies) : x.genres # NullText /\ x.genres # <<>>
        /\ \A r \in BagToSet(staging_movies) :
              (r.movieId # NULL /\ (r.genres = NullText \/ Trim(r.genres) = <<>>)) =>
                  \E x \in BagToSet(cleaned_movies) :
                      x.movieId = r.movieId /\ x.genres = <<"Unknown">>


\* ------------------------------------------------- claims: the warehouse
\* This run of create_warehouse.main has built the relation.
Rebuilt(relation) == \E i \in 1..Len(rebuilt) : rebuilt[i] = relation

\* The distinct genre names in a genre string split on '|'.
NamesIn(genres) ==
    IF genres = NullText THEN {}
    ELSE {Trim(string_to_array(genres)[i]) : i \in 1..Len(string_to_array(genres))}

BridgeRowsOf(id) == {b \in BagToSet(bridge_movie_genres) : b.movie_id = id}

\* C19: after create_bridge_movie_genres, no (movie_id, genre_key) pair is in
\* bridge_movie_genres twice, and a movie of cleaned_movies whose genre
\* string splits into k distinct genre names has k bridge rows, one for each
\* of the names.
C19_BridgeRows ==
    Rebuilt("bridge_movie_genres") =>
        /\ \A b \in BagToSet(bridge_movie_genres) : bridge_movie_genres[b] = 1
        /\ \A x \in BagToSet(cleaned_movies) :
              /\ CountIn(bridge_movie_genres, BridgeRowsOf(x.movieId))
                    = Cardinality(NamesIn(x.genres))
              /\ \A n \in NamesIn(x.genres) :
                    \E b \in BridgeRowsOf(x.movieId) :
                        \E g \in BagToSet(dim_genres) :
                            g.genre_key = b.genre_key /\ g.genre_name = n

\* C19's case: one movie is "Action|Comedy" and has two bridge rows, and
\* another movie shares a genre with it.
C19_Witness ==
    /\ Rebuilt("bridge_movie_genres")
    /\ \E x \in BagToSet(cleaned_movies) :
          /\ x.genres = <<"Action", "|", "Comedy">>
          /\ Cardinality(BridgeRowsOf(x.movieId)) = 2
    /\ RowCount(bridge_movie_genres) = 3

\* The place of each thing built in the dependency order: the dimensions,
\* the bridge, the fact, the indexes.
BuildRank(x) ==
    CASE x \in {"dim_movies", "dim_genres", "dim_users"} -> 1
      [] x = "bridge_movie_genres" -> 2
      [] x = "fact_ratings" -> 3
      [] x = "indexes" -> 4

\* C20: in every run of the warehouse builder, what has been built so far
\* was built in dependency order and once each: the bridge only after the
\* three dimensions of this run, the fact only after the bridge, the indexes
\* only after the fact; the bridge's keys are keys of this run's dim_genres;
\* and a run that ends has built all six.
C20_WarehouseOrder ==
    /\ \A i, j \in 1..Len(rebuilt) :
          i < j => rebuilt[i] # rebuilt[j] /\ BuildRank(rebuilt[i]) <= BuildRank(rebuilt[j])
    /\ Rebuilt("bridge_movie_genres") =>
          /\ Rebuilt("dim_movies") /\ Rebuilt("dim_genres") /\ Rebuilt("dim_users")
          /\ \A b \in BagToSet(bridge_movie_genres) :
                \E g \in BagToSet(dim_genres) : g.genre_key = b.genre_key
    /\ Rebuilt("fact_ratings") => Rebuilt("bridge_movie_genres")
    /\ Rebuilt("indexes") => Rebuilt("fact_ratings")
    /\ warehouse_pc = "done" => Len(rebuilt) = 6

\* C20's case: a run over an earlier run's warehouse has ended, and its
\* bridge has rows.
C20_Witness ==
    /\ warehouse_pc = "done"
    /\ rebuilt = << "dim_movies", "dim_genres", "dim_users", "bridge_movie_genres",
                    "fact_ratings", "indexes" >>
    /\ RowCount(bridge_movie_genres) > 0
    /\ indexes = AllIndexes


\* ------------------------------------------- claims: the analytics reporter
WrittenReports == {files_written[i] : i \in 1..Len(files_written)}

\* C21: when run_analytics.main has returned, it has run five queries and
\* written five files, one for each query, and each is in the output
\* directory under its name.
C21_FiveArtifacts ==
    analytics_pc = "done" =>
        /\ Len(files_written) = 5
        /\ Cardinality(WrittenReports) = 5
        /\ WrittenReports \subseteq DOMAIN output_files

MovieReports == {"top_10_movies_by_avg_rating", "least_10_movies_by_avg_rating"}

\* The rows of fact_ratings that are of movie id.
FactRowsOf(id) == CountIn(fact_ratings, {f \in BagToSet(fact_ratings) : f.movie_id = id})

\* C22: every movie listed in a movie report this run has written has at
\* least 100 rows in fact_ratings, and when no movie has 100 rows there the
\* report has no row.
C22_MinimumObservations ==
    \A report \in MovieReports \cap WrittenReports :
        LET rows == output_files[report].rows
        IN  /\ \A i \in 1..Len(rows) : FactRowsOf(rows[i].movie_id) >= 100
            /\ (\A f \in BagToSet(fact_ratings) : FactRowsOf(f.movie_id) < 100)
                  => rows = <<>>

\* C22's case: one movie has 100 ratings and the other 99; both movie reports
\* have been written and each lists the first movie only.
C22_Witness ==
    /\ MovieReports \subseteq WrittenReports
    /\ FactRowsOf(1) = 100
    /\ FactRowsOf(2) = 99
    /\ \A report \in MovieReports :
          /\ Len(output_files[report].rows) = 1
          /\ output_files[report].rows[1].movie_id = 1


\* ------------------------------------- claims: the filter and the conflicts
\* The claim's case for the pair k: every valid staging row of the pair has
\* a timestamp, and a row of the pair with a NULL or out-of-range rating has
\* a later timestamp than each of them.
LatestIsInvalid(k) ==
    /\ ValidOfPair(k) # {}
    /\ \A v \in ValidOfPair(k) : v.timestamp # NULL
    /\ \E b \in BagToSet(staging_ratings) :
          /\ <<b.userId, b.movieId>> = k
          /\ b.rating = NULL \/ b.rating < 5 \/ b.rating > 50
          /\ b.timestamp # NULL
          /\ \A v \in ValidOfPair(k) : v.timestamp < b.timestamp

\* C23: after clean_ratings_table, a pair whose latest staging row has a NULL
\* or out-of-range rating and which has an earlier valid row has exactly one
\* row in cleaned_ratings, and it is the pair's valid row of the greatest
\* timestamp.
C23_FilterBeforeConflicts ==
    RatingsCleaned =>
        \A k \in {<<r.userId, r.movieId>> : r \in ValidRows} :
            LatestIsInvalid(k) =>
                /\ CountIn(cleaned_ratings, CleanedOfPair(k)) = 1
                /\ \A x \in CleanedOfPair(k) :
                      \E v \in ValidOfPair(k) :
                          /\ v.timestamp = MaxTimestamp(k)
                          /\ x.rating = v.rating
                          /\ x.rating_timestamp = v.timestamp

\* C23's case: staging holds a pair's valid row and a later row of the pair
\* with a NULL or out-of-range rating; cleaned_ratings has the valid one.
C23_Witness ==
    /\ RatingsCleaned
    /\ \E k \in {<<r.userId, r.movieId>> : r \in ValidRows} :
          /\ LatestIsInvalid(k)
          /\ \E x \in CleanedOfPair(k) : x.rating_timestamp = MaxTimestamp(k)


\* ------------------------------------ claims: the warehouse builder's steps
\* C24: a step of create_warehouse.main that raises leaves every warehouse
\* relation, the catalog and the indexes as they were before the step, and
\* once main has raised no step of the run executes: nothing is built after.
C24_StepAtomic ==
    [][ /\ (warehouse_pc # "raised" /\ warehouse_pc' = "raised") =>
              /\ dim_movies' = dim_movies
              /\ dim_genres' = dim_genres
              /\ dim_users' = dim_users
              /\ bridge_movie_genres' = bridge_movie_genres
              /\ fact_ratings' = fact_ratings
              /\ catalog' = catalog
              /\ indexes' = indexes
              /\ rebuilt' = rebuilt
        /\ warehouse_pc = "raised" =>
              /\ warehouse_pc' = "raised"
              /\ dim_movies' = dim_movies
              /\ dim_genres' = dim_genres
              /\ dim_users' = dim_users
              /\ bridge_movie_genres' = bridge_movie_genres
              /\ fact_ratings' = fact_ratings
              /\ rebuilt' = rebuilt ]_vars

\* C24's case: cleaned_movies has a movieId twice or a NULL title, so the
\* INSERT of create_dim_movies has failed on a constraint; main has raised
\* with nothing built, and dim_movies holds the row of the earlier run.
C24_Witness ==
    /\ warehouse_pc = "raised"
    /\ rebuilt = <<>>
    /\ \/ \E x \in BagToSet(cleaned_movies) : x.title = NullText
       \/ \E x, y \in BagToSet(cleaned_movies) : x # y /\ x.movieId = y.movieId
    /\ RowCount(dim_movies) = 1
    /\ \E x \in BagToSet(dim_movies) : x.movie_id = 2
    /\ \A x \in BagToSet(cleaned_movies) : x.movieId # 2


\* ------------------------------------------ claims: the stages compose
\* C25: when transform_data.main has returned, the cleaned relations meet
\* the constraints of the warehouse tables filled from them: every row of
\* cleaned_movies has a movieId and a title and no two share a movieId, and
\* every row of cleaned_ratings has a userId, a movieId and a rating.
C25_CleanedFitsWarehouse ==
    transform_pc = "done" =>
        /\ \A x \in BagToSet(cleaned_movies) :
              /\ x.movieId # NULL
              /\ x.title # NullText
              /\ CountIn(cleaned_movies,
                         {y \in BagToSet(cleaned_movies) : y.movieId = x.movieId}) = 1
        /\ \A x \in BagToSet(cleaned_ratings) :
              x.userId # NULL /\ x.movieId # NULL /\ x.rating # NULL

=============================================================================
